---- MODULE Spec2Model ----
(***************************************************************************)
(* Model of the render-service orchestration core: the idempotent Kafka    *)
(* consumer loop (kafka_consumer.py), the render business layer            *)
(* (render_service.py) and the HTTP-triggered operations on a RenderJob.   *)
(* The consumer coroutine is cut at its await points; HTTP operations run  *)
(* between those points on the same event loop.                            *)
(***************************************************************************)
EXTENDS Naturals, Integers, Sequences, FiniteSets, TLC

\* ---------------------------------------------------------------- bounds
MaxDeliveries == 2
MaxRenders == 1
MaxOps == 2
MaxProviderFailures == 2
MaxPublishes == 3
LruMaxsize == 2
MaxLruOps == 5
MaxPois == 1
MaxPoiEvents == 5

\* ------------------------------------------------------ program constants
MAX_RETRIES == 3
BACKOFF_BASE_SECONDS == 1
IDEMPOTENCY_CACHE_SIZE == 10000
DefaultSceneCount == 0
PlaceholderScenes == 6

\* None for the nullable integer-coded columns
None == 0
ErrSeed == 2
DlqError == "Max retries exhausted in render-service consumer"
KAFKA_TOPIC == "video.events"

\* voiceover ids / audio paths a caller may attach
VoiceoverIds == {1}

\* ------------------------------------------------------------- messages
\* A raw Kafka message value.  parseable = the bytes validate as a
\* DomainEvent; has_count = the payload carries "scene_count";
\* scenes = the scene_number of every entry of payload["scenes"];
\* ids_ok = payload["script_id"] and payload["poi_id"] parse as UUIDs.
Payload(hasCount, count, sc, ids) ==
    [has_count |-> hasCount, scene_count |-> count, scenes |-> sc, ids_ok |-> ids]

RawMessage(id, type, ok, p) ==
    [event_id |-> id, event_type |-> type, parseable |-> ok, payload |-> p]

EmptyPayload == Payload(FALSE, 0, <<>>, TRUE)

Messages ==
    { RawMessage("e1", "script.generated", TRUE, Payload(TRUE, 2, <<1, 2>>, TRUE)),
      RawMessage("e2", "script.generated", TRUE, Payload(FALSE, 0, <<>>, TRUE)),
      RawMessage("e3", "script.generated", TRUE, Payload(TRUE, 1, <<1, 2>>, TRUE)),
      RawMessage("e4", "script.generated", TRUE, Payload(TRUE, 2, <<1, 2>>, FALSE)),
      RawMessage("e5", "voiceover.completed", TRUE, EmptyPayload),
      RawMessage("e6", "script.generated", FALSE, EmptyPayload) }

\* the script.generated messages as script-service publishes them for a
\* script that has scenes (payload carries the scene list and its length)
RenderMessages ==
    { m \in Messages : /\ m.parseable
                       /\ m.event_type = "script.generated"
                       /\ m.payload.scenes # <<>>
                       /\ m.payload.has_count
                       /\ m.payload.scene_count = Len(m.payload.scenes) }

NoMessage == RawMessage("none", "none", FALSE, EmptyPayload)

\* DomainEvent.from_kafka_value: raises on bytes that do not validate,
\* otherwise yields the envelope fields carried by the bytes.
CanDeserialize(raw) == raw.parseable

from_kafka_value(raw) ==
    [event_id |-> raw.event_id, event_type |-> raw.event_type, payload |-> raw.payload]

\* ------------------------------------------------------------ _LRUSet
\* _data is an OrderedDict; modelled as the sequence of its keys, oldest first.
Without(s, k) == SelectSeq(s, LAMBDA x : x # k)

KeyIn(s, k) == \E i \in 1..Len(s) : s[i] = k

move_to_end(s, k) == Append(Without(s, k), k)

\* __contains__ : membership result and the _data it leaves behind
LRUContains(s, k) == KeyIn(s, k)

LRUAfterContains_NoTouch(s, k) == s

LRUAfterContains(s, k) == IF KeyIn(s, k) THEN move_to_end(s, k) ELSE s

LRUAdd_OneTooMany(s, k, maxsize) ==
    IF KeyIn(s, k) THEN move_to_end(s, k)
    ELSE LET t == Append(s, k)
         IN  IF Len(t) > maxsize + 1 THEN Tail(t) ELSE t

LRUAdd(s, k, maxsize) ==
    IF KeyIn(s, k) THEN move_to_end(s, k)
    ELSE LET t == Append(s, k)
         IN  IF Len(t) > maxsize THEN Tail(t) ELSE t

\* ------------------------------------------------ consumer retry policy
RECURSIVE Pow2(_)
Pow2(n) == IF n = 0 THEN 1 ELSE 2 * Pow2(n - 1)

ShouldRetry_Never(a) == FALSE

ShouldRetry_OneMore(a) == a <= MAX_RETRIES

ShouldRetry(a) == a < MAX_RETRIES

Backoff_FromTwo(a) == BACKOFF_BASE_SECONDS * Pow2(a)

Backoff(a) == BACKOFF_BASE_SECONDS * Pow2(a - 1)

IsHandled_Any(type) == TRUE

IsHandled(type) == type = "script.generated"

\* what the consumer does with the event id once an attempt succeeded
MarkProcessed_Cleared(s, k) == <<k>>

MarkProcessed_Forgotten(s, k) == s

MarkProcessed(s, k) == LRUAdd(s, k, IDEMPOTENCY_CACHE_SIZE)

DlqCall(raw) ==
    [original_topic |-> KAFKA_TOPIC, raw_value |-> raw,
     error |-> DlqError, retry_count |-> MAX_RETRIES]

DLQ_TOPIC == "dlq.events"

\* raw_value.decode("utf-8", errors="replace"): the bytes as text
Decode(raw) == [text |-> raw]

\* the record publish_to_dlq sends for a call: topic, envelope type, payload
DlqEnvelope(call) ==
    [topic |-> DLQ_TOPIC, event_type |-> "dlq.message_failed",
     payload |-> [original_topic |-> call.original_topic,
                  raw_value |-> Decode(call.raw_value),
                  error |-> call.error,
                  retry_count |-> call.retry_count]]

\* how await publish_to_dlq(...) can end: the broker took the record, no
\* producer could be had, or send_and_wait raised
DlqResults == {"sent", "no_producer", "send_failed"}

DlqEscapes_SendErrors(r) == r = "send_failed"

\* whether a failed dead-letter publish raises into start_consumer's message
\* loop: publish_to_dlq logs its own send errors and the consumer wraps the
\* call in "except Exception", so nothing does
DlqEscapes(r) == FALSE

\* _process_scenes has no handler around the provider call: the job row is
\* left as it was when the call raised.
JobAfterProviderError(job) == job

\* ------------------------------------------------------- render model
SceneCount(p) == IF p.has_count THEN p.scene_count ELSE DefaultSceneCount

NewJob(p) ==
    [status |-> "pending", total_scenes |-> SceneCount(p), completed_scenes |-> 0,
     output_path |-> None, voiceover_id |-> None, voiceover_audio_path |-> None,
     published_url |-> None, published_at |-> None, error_message |-> None,
     completed_at |-> None]

StartProcessing_Skipped(job) == job

StartProcessing(job) == [job EXCEPT !.status = "processing"]

ScenesData(p, total) ==
    IF p.scenes # <<>> THEN p.scenes
    ELSE [i \in 1..(IF total # 0 THEN total ELSE PlaceholderScenes) |-> i]

NewScene(jobId, num) == [render_job_id |-> jobId, scene_number |-> num, status |-> "pending"]

SceneDone(scene) == [scene EXCEPT !.status = "completed"]

CountScene_Skipped(job) == job

CountScene(job) == [job EXCEPT !.completed_scenes = @ + 1]

OutputPath(jobId) == jobId

CompleteJob(job, jobId, now) ==
    [job EXCEPT !.status = "completed", !.completed_at = now, !.output_path = OutputPath(jobId)]

SceneEvent(jobId, sceneId, num) ==
    [type |-> "render.scene.generated", job |-> jobId, scene |-> sceneId, scene_number |-> num]

CompletedEvent(jobId) ==
    [type |-> "render.completed", job |-> jobId, scene |-> 0, scene_number |-> 0]

PublishedEvent(jobId) ==
    [type |-> "video.published", job |-> jobId, scene |-> 0, scene_number |-> 0]

CanPublish_NotPending(job) == job.status # "pending"

CanPublish(job) == job.status = "completed"

PublishedUrl(jobId) == jobId

PublishJob_StampedUrl(job, jobId, now) ==
    [job EXCEPT !.published_url = PublishedUrl(jobId) + now, !.published_at = now]

PublishJob(job, jobId, now) ==
    [job EXCEPT !.published_url = PublishedUrl(jobId), !.published_at = now]

CanRetry_NotCompleted(job) == job.status # "completed"

CanRetry(job) == job.status = "failed"

RetryJob_KeepsCounter(job) ==
    [job EXCEPT !.status = "pending", !.error_message = None]

RetryJob_Restarts(job) ==
    [job EXCEPT !.status = "processing", !.completed_scenes = 0, !.error_message = None]

RetryJob(job) ==
    [job EXCEPT !.status = "pending", !.completed_scenes = 0, !.error_message = None]

AttachJob_Requeues(job, vid, path) ==
    [job EXCEPT !.voiceover_id = vid, !.voiceover_audio_path = path, !.status = "pending"]

AttachJob(job, vid, path) ==
    [job EXCEPT !.voiceover_id = vid, !.voiceover_audio_path = path]

\* A failed row as the render tests insert it (a job that stopped at scene 2).
SeedFailedJob ==
    [status |-> "failed", total_scenes |-> 3, completed_scenes |-> 1,
     output_path |-> None, voiceover_id |-> None, voiceover_audio_path |-> None,
     published_url |-> None, published_at |-> None, error_message |-> ErrSeed,
     completed_at |-> None]

SeedScenes == << [render_job_id |-> 1, scene_number |-> 1, status |-> "completed"],
                 [render_job_id |-> 1, scene_number |-> 2, status |-> "pending"] >>

\* ------------------------------------------------------------- state
\* jobs, scenes    the render_jobs and render_scenes tables (row id = index)
\* statusLog[j]    every status value committed for job j, in commit order
\* dlq             the publish_to_dlq calls made
\* cache           _processed_events._data, oldest key first
\* pc, msg, attempt, curJob, todo   the consumer coroutine: where it awaits,
\*                 the message and attempt in hand, the job and the scenes
\*                 of scenes_data not yet started
\* deliveries      one record per message pulled: handler invocations, how
\*                 many of them raised, jobs created, attempts, sleeps, outcome
\* failures        the provider calls that raised
\* lastOp, nOps    the response of the HTTP request just served; requests served
\* events[j] is the log of publish_video_event calls made for job j, in call order
VARIABLES jobs, scenes, statusLog, events, dlq, cache,
          pc, msg, attempt, curJob, todo,
          deliveries, failures, lastOp, nOps

\* common/kafka.py, the process-wide producer and the publish_event calls
\* producerObjs[i]  the i-th AIOKafkaProducer constructed: "unstarted" while
\*                  its start() is awaited, then "started" or "failed"
\* producer         the module global _producer: an index of producerObjs, or None
\* pubs             one record per publish_event call: the envelope built, where
\*                  the call awaits, the producer it holds, its send attempts,
\*                  what it returned
\* topic            the envelopes the broker accepted, in order
VARIABLES producerObjs, producer, pubs, topic

\* an _LRUSet of small maxsize driven directly
\* lru              its _data, oldest key first
\* lruUse[k]        when k was last inserted (ins) and last touched (use), 0 = never
\* lruClock         operations performed on the set
\* lruLast          the operation just performed and what it returned
VARIABLES lru, lruUse, lruClock, lruLast

\* poi-service
\* pois             the POI rows
\* poiEvents        the publish_poi_event calls, in call order
\* poiLast          the POIService call just served and its outcome
VARIABLES pois, poiEvents, poiLast

renderVars == <<jobs, scenes, statusLog, events, dlq, cache,
                pc, msg, attempt, curJob, todo,
                deliveries, failures, lastOp, nOps>>

kafkaVars == <<producerObjs, producer, pubs, topic>>

lruVars == <<lru, lruUse, lruClock, lruLast>>

poiVars == <<pois, poiEvents, poiLast>>

vars == <<renderVars, kafkaVars, lruVars, poiVars>>

Last(s) == s[Len(s)]

SetLast(s, r) == [s EXCEPT ![Len(s)] = r]

\* datetime.now(): a positive, non-decreasing logical time
Now == 1 + Len(deliveries)

NewDelivery(m) ==
    [event_id |-> m.event_id, event_type |-> m.event_type, calls |-> 0,
     raised |-> 0, jobs |-> <<>>, attempts |-> 1, outcome |-> "running",
     sleeps |-> <<>>, dlq |-> <<>>, dlqResult |-> "none", parses |-> 0,
     lastError |-> "none"]

NoOp == [op |-> "none", id |-> 0, result |-> "none"]

\* the ids offered to the small _LRUSet: one more than it can hold
LruKeys == 1..(LruMaxsize + 1)

NeverUsed == [ins |-> 0, use |-> 0]

NoLruOp == [op |-> "none", key |-> 0, hit |-> FALSE]

NoPoiOp == [op |-> "none", id |-> 0, from |-> "none", target |-> "none", result |-> "none"]

\* A fresh consumer process (empty cache, no message in hand) on a database
\* that holds one failed job: no code path writes status failed, so the row
\* retry_render acts on is the one the render tests insert.
Init ==
    /\ jobs = <<SeedFailedJob>>
    /\ scenes = SeedScenes
    /\ statusLog = << <<"failed">> >>
    /\ events = << <<>> >>
    /\ dlq = <<>>
    /\ cache = <<>>
    /\ pc = "idle"
    /\ msg = NoMessage
    /\ attempt = 0
    /\ curJob = 0
    /\ todo = <<>>
    /\ deliveries = <<>>
    /\ failures = <<>>
    /\ lastOp = NoOp
    /\ nOps = 0
    /\ producerObjs = <<>>
    /\ producer = None
    /\ pubs = <<>>
    /\ topic = <<>>
    /\ lru = <<>>
    /\ lruUse = [k \in LruKeys |-> NeverUsed]
    /\ lruClock = 0
    /\ lruLast = NoLruOp
    /\ pois = <<>>
    /\ poiEvents = <<>>
    /\ poiLast = NoPoiOp

\* the handler invoked by the current attempt raised
HandlerRaised(dl) == SetLast(dl, [Last(dl) EXCEPT !.raised = @ + 1])

\* the exception the current attempt ended with
WithError(dl, err) == SetLast(dl, [Last(dl) EXCEPT !.lastError = err])

\* ---------------------------------------------------- consumer: failure
Fail_Instant(m, a, dl) ==
    /\ pc' = "dlq"
    /\ deliveries' = SetLast(dl, [Last(dl) EXCEPT !.dlq = Append(@, DlqCall(m))])
    /\ dlq' = Append(dlq, DlqCall(m))

\* except Exception: back off and retry while attempts remain, otherwise
\* fall out of the loop into publish_to_dlq.
Fail(m, a, dl) ==
    IF ShouldRetry(a)
    THEN /\ pc' = "sleep"
         /\ deliveries' = SetLast(dl, [Last(dl) EXCEPT !.sleeps = Append(@, Backoff(a))])
         /\ dlq' = dlq
    ELSE /\ pc' = "dlq"
         /\ deliveries' = SetLast(dl, [Last(dl) EXCEPT !.dlq = Append(@, DlqCall(m))])
         /\ dlq' = Append(dlq, DlqCall(m))

\* ------------------------------------------------- scene loop iteration
\* Top of "for scene_data in scenes_data": persist the next scene row and
\* call the provider, or leave the loop, mark the job completed and publish
\* render.completed.
LoopNext(jb, sl, ev, id, sd) ==
    IF sd = <<>>
    THEN /\ jobs' = [jb EXCEPT ![id] = CompleteJob(@, id, Now)]
         /\ statusLog' = [sl EXCEPT ![id] = Append(@, CompleteJob(jb[id], id, Now).status)]
         /\ events' = [ev EXCEPT ![id] = Append(@, CompletedEvent(id))]
         /\ scenes' = scenes
         /\ todo' = <<>>
         /\ pc' = "pub_done"
    ELSE /\ jobs' = jb
         /\ statusLog' = sl
         /\ events' = ev
         /\ scenes' = Append(scenes, NewScene(id, Head(sd)))
         /\ todo' = Tail(sd)
         /\ pc' = "provider"

\* ------------------------------------------- one attempt of the for loop
\* Runs from the top of the try block to the first await of the attempt.
RunAttempt(m, a, dl0) ==
    LET dl == SetLast(dl0, [Last(dl0) EXCEPT !.parses = @ + 1]) IN
    IF ~CanDeserialize(m)
    THEN /\ Fail(m, a, WithError(dl, "ValidationError"))
         /\ UNCHANGED <<cache, jobs, scenes, statusLog, events, curJob, todo>>
    ELSE LET ev == from_kafka_value(m) IN
         IF LRUContains(cache, ev.event_id)
         THEN /\ cache' = LRUAfterContains(cache, ev.event_id)
              /\ pc' = "idle"
              /\ deliveries' = SetLast(dl, [Last(dl) EXCEPT !.outcome = "duplicate"])
              /\ UNCHANGED <<dlq, jobs, scenes, statusLog, events, curJob, todo>>
         ELSE IF IsHandled(ev.event_type)
         THEN LET dl1 == SetLast(dl, [Last(dl) EXCEPT !.calls = @ + 1]) IN
              IF ~ev.payload.ids_ok
              THEN /\ Fail(m, a, WithError(HandlerRaised(dl1), "ValueError"))
                   /\ UNCHANGED <<cache, jobs, scenes, statusLog, events, curJob, todo>>
              ELSE LET created == NewJob(ev.payload)
                       job == StartProcessing(created)
                       id == Len(jobs) + 1
                   IN  /\ LoopNext(Append(jobs, job),
                                   Append(statusLog, <<created.status, job.status>>),
                                   Append(events, <<>>),
                                   id, ScenesData(ev.payload, job.total_scenes))
                       /\ curJob' = id
                       /\ deliveries' = SetLast(dl1, [Last(dl1) EXCEPT !.jobs = Append(@, id)])
                       /\ UNCHANGED <<cache, dlq>>
         ELSE /\ cache' = MarkProcessed(cache, ev.event_id)
              /\ pc' = "idle"
              /\ deliveries' = SetLast(dl, [Last(dl) EXCEPT !.outcome = "success"])
              /\ UNCHANGED <<dlq, jobs, scenes, statusLog, events, curJob, todo>>

\* ------------------------------------------------------ consumer actions
\* async for msg in consumer: the next message arrives and attempt 1 starts
PullFrom(S, limit) ==
    /\ lastOp' = NoOp
    /\ pc = "idle"
    /\ Len(deliveries) < limit
    /\ \E m \in S :
          /\ msg' = m
          /\ attempt' = 1
          /\ RunAttempt(m, 1, Append(deliveries, NewDelivery(m)))
    /\ UNCHANGED <<failures, nOps>>
    /\ UNCHANGED <<kafkaVars, lruVars, poiVars>>

\* the consumer on its own: any message of the topic
Pull == PullFrom(Messages, MaxDeliveries)

\* the consumer next to the HTTP surface: the messages that reach the render layer
PullRender == PullFrom(RenderMessages, MaxRenders)

\* client.generate_scene returned: scene completed, counter incremented,
\* render.scene.generated published
ProviderReturn ==
    /\ lastOp' = NoOp
    /\ pc = "provider"
    /\ scenes' = [scenes EXCEPT ![Len(scenes)] = SceneDone(@)]
    /\ jobs' = [jobs EXCEPT ![curJob] = CountScene(@)]
    /\ events' = [events EXCEPT ![curJob] =
                      Append(@, SceneEvent(curJob, Len(scenes), Last(scenes).scene_number))]
    /\ pc' = "pub_scene"
    /\ UNCHANGED <<statusLog, dlq, cache, msg, attempt, curJob, todo,
                   deliveries, failures, nOps>>
    /\ UNCHANGED <<kafkaVars, lruVars, poiVars>>

\* client.generate_scene raised: the exception leaves the handler
ProviderRaise ==
    /\ lastOp' = NoOp
    /\ pc = "provider"
    /\ Len(failures) < MaxProviderFailures
    /\ failures' = Append(failures, [job |-> curJob, scene |-> Len(scenes), attempt |-> attempt])
    /\ jobs' = [jobs EXCEPT ![curJob] = JobAfterProviderError(@)]
    /\ Fail(msg, attempt, WithError(HandlerRaised(deliveries), "ProviderError"))
    /\ UNCHANGED <<scenes, statusLog, events, cache, msg, attempt, curJob, todo, nOps>>
    /\ UNCHANGED <<kafkaVars, lruVars, poiVars>>

\* publish of render.scene.generated returned: next loop iteration
PublishSceneDone ==
    /\ lastOp' = NoOp
    /\ pc = "pub_scene"
    /\ LoopNext(jobs, statusLog, events, curJob, todo)
    /\ UNCHANGED <<dlq, cache, msg, attempt, curJob, deliveries, failures, nOps>>
    /\ UNCHANGED <<kafkaVars, lruVars, poiVars>>

\* publish of render.completed returned: the handler returns, the event id
\* is recorded and the retry loop is left
PublishCompletedDone ==
    /\ lastOp' = NoOp
    /\ pc = "pub_done"
    /\ cache' = MarkProcessed(cache, from_kafka_value(msg).event_id)
    /\ deliveries' = SetLast(deliveries, [Last(deliveries) EXCEPT !.outcome = "success"])
    /\ pc' = "idle"
    /\ UNCHANGED <<jobs, scenes, statusLog, events, dlq, msg, attempt, curJob, todo,
                   failures, nOps>>
    /\ UNCHANGED <<kafkaVars, lruVars, poiVars>>

\* asyncio.sleep(backoff) returned: next attempt
SleepDone ==
    /\ lastOp' = NoOp
    /\ pc = "sleep"
    /\ attempt' = attempt + 1
    /\ RunAttempt(msg, attempt + 1,
                  SetLast(deliveries, [Last(deliveries) EXCEPT !.attempts = @ + 1]))
    /\ UNCHANGED <<msg, failures, nOps>>
    /\ UNCHANGED <<kafkaVars, lruVars, poiVars>>

\* publish_to_dlq returned
DlqDone ==
    /\ lastOp' = NoOp
    /\ pc = "dlq"
    /\ \E r \in DlqResults :
          /\ deliveries' = SetLast(deliveries, [Last(deliveries) EXCEPT
                                                   !.outcome = "dlq", !.dlqResult = r])
          /\ pc' = IF DlqEscapes(r) THEN "crashed" ELSE "idle"
    /\ UNCHANGED <<jobs, scenes, statusLog, events, dlq, cache, msg, attempt, curJob, todo,
                   failures, nOps>>
    /\ UNCHANGED <<kafkaVars, lruVars, poiVars>>

\* ---------------------------------------------------------- HTTP actions
Known(id) == id \in 1..Len(jobs)

JobIds == 1..(Len(jobs) + 1)

Rejected(op, id, err) ==
    /\ lastOp' = [op |-> op, id |-> id, result |-> err]
    /\ UNCHANGED <<jobs, statusLog, events>>

PublishVideo ==
    /\ nOps < MaxOps
    /\ nOps' = nOps + 1
    /\ \E id \in JobIds :
          IF ~Known(id) THEN Rejected("publish_video", id, "NotFoundError")
          ELSE IF ~CanPublish(jobs[id]) THEN Rejected("publish_video", id, "WorkflowError")
          ELSE /\ jobs' = [jobs EXCEPT ![id] = PublishJob(@, id, Now)]
               /\ events' = [events EXCEPT ![id] = Append(@, PublishedEvent(id))]
               /\ lastOp' = [op |-> "publish_video", id |-> id, result |-> "ok"]
               /\ UNCHANGED statusLog
    /\ UNCHANGED <<scenes, dlq, cache, pc, msg, attempt, curJob, todo, deliveries, failures>>
    /\ UNCHANGED <<kafkaVars, lruVars, poiVars>>

RetryRender ==
    /\ nOps < MaxOps
    /\ nOps' = nOps + 1
    /\ \E id \in JobIds :
          IF ~Known(id) THEN Rejected("retry_render", id, "NotFoundError")
          ELSE IF ~CanRetry(jobs[id]) THEN Rejected("retry_render", id, "WorkflowError")
          ELSE /\ jobs' = [jobs EXCEPT ![id] = RetryJob(@)]
               /\ statusLog' = [statusLog EXCEPT ![id] = Append(@, RetryJob(jobs[id]).status)]
               /\ lastOp' = [op |-> "retry_render", id |-> id, result |-> "ok"]
               /\ UNCHANGED events
    /\ UNCHANGED <<scenes, dlq, cache, pc, msg, attempt, curJob, todo, deliveries, failures>>
    /\ UNCHANGED <<kafkaVars, lruVars, poiVars>>

AttachVoiceover ==
    /\ nOps < MaxOps
    /\ nOps' = nOps + 1
    /\ \E id \in JobIds, v \in VoiceoverIds :
          IF ~Known(id) THEN Rejected("attach_voiceover", id, "NotFoundError")
          ELSE /\ jobs' = [jobs EXCEPT ![id] = AttachJob(@, v, v)]
               /\ lastOp' = [op |-> "attach_voiceover", id |-> id, result |-> "ok"]
               /\ UNCHANGED <<statusLog, events>>
    /\ UNCHANGED <<scenes, dlq, cache, pc, msg, attempt, curJob, todo, deliveries, failures>>
    /\ UNCHANGED <<kafkaVars, lruVars, poiVars>>

Consumer ==
    \/ ProviderReturn
    \/ ProviderRaise
    \/ PublishSceneDone
    \/ PublishCompletedDone
    \/ SleepDone
    \/ DlqDone

Next ==
    \/ Pull
    \/ Consumer

Spec == Init /\ [][Next]_vars

\* The event loop resumes the consumer task whenever the await it is
\* suspended on (provider call, publish, backoff sleep) completes.
SpecLive == Init /\ [][Next]_vars /\ WF_vars(Consumer)

\* lifespan shutdown: _consumer_task.cancel(). CancelledError is raised at the
\* await the consumer is suspended in; it is not an Exception, so the
\* attempt's "except Exception" lets it through to start_consumer, which logs
\* the shutdown and stops the consumer. A message in hand is left as it is.
Shutdown ==
    /\ pc \notin {"stopped", "crashed"}
    /\ pc' = "stopped"
    /\ deliveries' = IF pc = "idle"
                     THEN deliveries
                     ELSE SetLast(deliveries, [Last(deliveries) EXCEPT !.outcome = "cancelled"])
    /\ lastOp' = NoOp
    /\ UNCHANGED <<jobs, scenes, statusLog, events, dlq, cache, msg, attempt, curJob, todo,
                   failures, nOps>>
    /\ UNCHANGED <<kafkaVars, lruVars, poiVars>>

NextShutdown ==
    \/ Pull
    \/ Consumer
    \/ Shutdown

SpecShutdown == Init /\ [][NextShutdown]_vars

NextOps ==
    \/ PullRender
    \/ Consumer
    \/ PublishVideo
    \/ RetryRender
    \/ AttachVoiceover

SpecOps == Init /\ [][NextOps]_vars


\* ---------------------------------------------------- common/kafka.py
\* The event types the render service publishes through publish_event.
PublishedTypes == {"render.completed", "video.published"}

\* DomainEvent(event_type=..., payload=...): the envelope of the n-th call
Envelope(n, type) == [event_id |-> n, event_type |-> type]

NoEnvelope == [event_id |-> 0, event_type |-> "none"]

\* a publish_event call, or the start_kafka_producer call of the lifespan
NewCall(kind, ev) ==
    [kind |-> kind, event |-> ev, pc |-> "new", handle |-> None, sends |-> 0,
     result |-> "none", returned |-> NoEnvelope]

\* _producer = AIOKafkaProducer(...): the global is bound before start() is awaited
Construct(objs) == Append(objs, "unstarted")

\* "if producer is None": warn and return the envelope unsent
ReturnUnsent(call) ==
    [call EXCEPT !.pc = "returned", !.result = "dropped", !.returned = call.event]

\* await producer.send_and_wait(...) entered with the producer the call holds
BeginSend(call, h) == [call EXCEPT !.pc = "send", !.handle = h, !.sends = @ + 1]

\* send_and_wait returned: info log, return the envelope
OnSendOk(call) ==
    [call EXCEPT !.pc = "returned", !.result = "sent", !.returned = call.event]

OnSendError_Reraised(call) ==
    [call EXCEPT !.pc = "raised", !.result = "send_failed"]

\* except Exception around send_and_wait: warn, fall through to "return event"
OnSendError(call) ==
    [call EXCEPT !.pc = "returned", !.result = "send_failed", !.returned = call.event]

\* the lifespan calls start_kafka_producer once at startup; it returns at
\* once when a producer is already bound
Startup ==
    /\ Len(pubs) < MaxPublishes
    /\ \A i \in 1..Len(pubs) : pubs[i].kind # "startup"
    /\ IF producer # None
       THEN /\ pubs' = Append(pubs, [NewCall("startup", NoEnvelope) EXCEPT
                                         !.pc = "returned", !.result = "already"])
            /\ UNCHANGED <<producerObjs, producer>>
       ELSE /\ producerObjs' = Construct(producerObjs)
            /\ producer' = Len(producerObjs) + 1
            /\ pubs' = Append(pubs, [NewCall("startup", NoEnvelope) EXCEPT !.pc = "start"])
    /\ UNCHANGED <<topic, renderVars, lruVars, poiVars>>

\* publish_event up to its first await: build the envelope, _get_producer;
\* with no producer bound start one lazily, otherwise send on the bound one
PublishEvent ==
    /\ Len(pubs) < MaxPublishes
    /\ \E type \in PublishedTypes :
          LET call == NewCall("publish", Envelope(Len(pubs) + 1, type)) IN
          IF producer = None
          THEN /\ producerObjs' = Construct(producerObjs)
               /\ producer' = Len(producerObjs) + 1
               /\ pubs' = Append(pubs, [call EXCEPT !.pc = "start"])
          ELSE /\ pubs' = Append(pubs, BeginSend(call, producer))
               /\ UNCHANGED <<producerObjs, producer>>
    /\ UNCHANGED <<topic, renderVars, lruVars, poiVars>>

\* await _producer.start() is over: the producer is started, or the except
\* branch resets the global to None; _get_producer then returns the global
StartReturns ==
    \E c \in 1..Len(pubs) : \E ok \in BOOLEAN :
       /\ pubs[c].pc = "start"
       /\ producerObjs' = [producerObjs EXCEPT ![producer] =
                               IF ok THEN "started" ELSE "failed"]
       /\ producer' = IF ok THEN producer ELSE None
       /\ pubs' = [pubs EXCEPT ![c] =
                      IF pubs[c].kind = "startup"
                      THEN [@ EXCEPT !.pc = "returned",
                                     !.result = IF ok THEN "started" ELSE "unavailable"]
                      ELSE IF ok THEN BeginSend(@, producer) ELSE ReturnUnsent(@)]
       /\ UNCHANGED <<topic, renderVars, lruVars, poiVars>>

\* await send_and_wait is over: the broker took the envelope, or the send
\* raised (always so on a producer that was never started)
SendReturns ==
    \E c \in 1..Len(pubs) : \E ok \in BOOLEAN :
       /\ pubs[c].pc = "send"
       /\ ok => producerObjs[pubs[c].handle] = "started"
       /\ pubs' = [pubs EXCEPT ![c] = IF ok THEN OnSendOk(@) ELSE OnSendError(@)]
       /\ topic' = IF ok THEN Append(topic, pubs[c].event) ELSE topic
       /\ UNCHANGED <<producerObjs, producer, renderVars, lruVars, poiVars>>

NextKafka == Startup \/ PublishEvent \/ StartReturns \/ SendReturns

SpecKafka == Init /\ [][NextKafka]_vars


\* ------------------------------------------------------------ _LRUSet
\* _LRUSet(LruMaxsize).add(k)
LruAdd ==
    /\ lruClock < MaxLruOps
    /\ \E k \in LruKeys :
          /\ lru' = LRUAdd(lru, k, LruMaxsize)
          /\ lruUse' = [lruUse EXCEPT ![k] =
                           [ins |-> IF KeyIn(lru, k) THEN @.ins ELSE lruClock + 1,
                            use |-> lruClock + 1]]
          /\ lruLast' = [op |-> "add", key |-> k, hit |-> KeyIn(lru, k)]
    /\ lruClock' = lruClock + 1
    /\ UNCHANGED <<renderVars, kafkaVars, poiVars>>

\* k in _LRUSet(LruMaxsize)
LruLookup ==
    /\ lruClock < MaxLruOps
    /\ \E k \in LruKeys :
          /\ lru' = LRUAfterContains(lru, k)
          /\ lruUse' = IF LRUContains(lru, k)
                       THEN [lruUse EXCEPT ![k].use = lruClock + 1]
                       ELSE lruUse
          /\ lruLast' = [op |-> "contains", key |-> k, hit |-> LRUContains(lru, k)]
    /\ lruClock' = lruClock + 1
    /\ UNCHANGED <<renderVars, kafkaVars, poiVars>>

NextLRU == LruAdd \/ LruLookup

SpecLRU == Init /\ [][NextLRU]_vars


\* -------------------------------------------------------- poi-service
POIStatus == {"draft", "validated", "published", "archived"}

TRANSITIONS_DraftPublishes ==
    [draft |-> {"validated", "published"}, validated |-> {"published", "draft"},
     published |-> {"archived"}, archived |-> {}]

\* _TRANSITIONS
TRANSITIONS ==
    [draft |-> {"validated"}, validated |-> {"published", "draft"},
     published |-> {"archived"}, archived |-> {}]

\* _check_transition returns (TRUE) or raises WorkflowError (FALSE)
check_transition(status, target) ==
    target \in (IF status \in DOMAIN TRANSITIONS THEN TRANSITIONS[status] ELSE {})

\* latitudes and longitudes POICreate / POIUpdate accept (ge, le bounds)
Lats == {-90, 48}

Lons == {2, 180}

CoordsValid(poi) ==
    /\ -90 <= poi.lat /\ poi.lat <= 90
    /\ -180 <= poi.lon /\ poi.lon <= 180

NewPoi(lat, lon) == [status |-> "draft", version |-> 1, lat |-> lat, lon |-> lon]

\* publish_poi_event(event_type, poi): the type and the snapshot's id, status, version
PoiEvent(type, id, poi) ==
    [event_type |-> type, id |-> id, status |-> poi.status, version |-> poi.version]

PoiResult(op, id, from, target, result) ==
    [op |-> op, id |-> id, from |-> from, target |-> target, result |-> result]

PoiIds == 1..MaxPois

UpdatedVersion_Always(poi) == poi.version + 1

\* update_poi: "if poi.status == published: poi.version += 1"
UpdatedVersion(poi) == IF poi.status = "published" THEN poi.version + 1 ELSE poi.version

CreatePoi ==
    /\ Len(pois) < MaxPois
    /\ Len(poiEvents) < MaxPoiEvents
    /\ \E lat \in Lats : \E lon \in Lons :
          LET poi == NewPoi(lat, lon)
              id == Len(pois) + 1
          IN  /\ pois' = Append(pois, poi)
              /\ poiEvents' = Append(poiEvents, PoiEvent("poi.created", id, poi))
              /\ poiLast' = PoiResult("create_poi", id, "none", poi.status, "ok")
    /\ UNCHANGED <<renderVars, kafkaVars, lruVars>>

\* update_poi: a published POI gets a new version; fields given are overwritten
UpdatePoi ==
    /\ Len(poiEvents) < MaxPoiEvents
    /\ \E id \in PoiIds : \E lat \in Lats :
          IF id > Len(pois)
          THEN /\ poiLast' = PoiResult("update_poi", id, "none", "none", "NotFoundError")
               /\ UNCHANGED <<pois, poiEvents>>
          ELSE LET poi == [pois[id] EXCEPT
                              !.version = UpdatedVersion(pois[id]),
                              !.lat = lat]
               IN  /\ pois' = [pois EXCEPT ![id] = poi]
                   /\ poiEvents' = Append(poiEvents, PoiEvent("poi.updated", id, poi))
                   /\ poiLast' = PoiResult("update_poi", id, poi.status, poi.status, "ok")
    /\ UNCHANGED <<renderVars, kafkaVars, lruVars>>

\* the body shared by validate_poi, publish_poi and archive_poi: get_poi,
\* _check_transition, (validate only) the coordinate check, set the status,
\* commit, publish the event
Workflow(op, target, type, checksCoords) ==
    /\ Len(poiEvents) < MaxPoiEvents
    /\ \E id \in PoiIds :
          IF id > Len(pois)
          THEN /\ poiLast' = PoiResult(op, id, "none", target, "NotFoundError")
               /\ UNCHANGED <<pois, poiEvents>>
          ELSE IF ~check_transition(pois[id].status, target)
                  \/ (checksCoords /\ ~CoordsValid(pois[id]))
          THEN /\ poiLast' = PoiResult(op, id, pois[id].status, target, "WorkflowError")
               /\ UNCHANGED <<pois, poiEvents>>
          ELSE LET poi == [pois[id] EXCEPT !.status = target]
               IN  /\ pois' = [pois EXCEPT ![id] = poi]
                   /\ poiEvents' = Append(poiEvents, PoiEvent(type, id, poi))
                   /\ poiLast' = PoiResult(op, id, pois[id].status, target, "ok")
    /\ UNCHANGED <<renderVars, kafkaVars, lruVars>>

ValidatePoi == Workflow("validate_poi", "validated", "poi.validated", TRUE)

PublishPoi == Workflow("publish_poi", "published", "poi.published", FALSE)

ArchivePoi == Workflow("archive_poi", "archived", "poi.archived", FALSE)

\* POIService._check_transition(poi, target) called on its own, for any target
CheckTransition ==
    /\ \E id \in 1..Len(pois) : \E target \in POIStatus :
          poiLast' = PoiResult("_check_transition", id, pois[id].status, target,
                               IF check_transition(pois[id].status, target)
                               THEN "ok" ELSE "WorkflowError")
    /\ UNCHANGED <<pois, poiEvents, renderVars, kafkaVars, lruVars>>

NextPoi ==
    \/ CreatePoi
    \/ UpdatePoi
    \/ ValidatePoi
    \/ PublishPoi
    \/ ArchivePoi
    \/ CheckTransition

SpecPoi == Init /\ [][NextPoi]_vars


\* ------------------------------------------------------------ claims
Finished(d) == d.outcome # "running"

DeliveryIds == 1..Len(deliveries)

\* C1 (as stated): delivering an envelope E twice invokes the handler exactly
\* once over the two deliveries and, for script.generated, creates exactly one
\* RenderJob.
C1_ExactlyOnce ==
    \A i, j \in DeliveryIds :
        ( /\ i < j
          /\ deliveries[i].event_id = deliveries[j].event_id
          /\ IsHandled(deliveries[i].event_type) )
        => /\ deliveries[i].calls + deliveries[j].calls <= 1
           /\ Len(deliveries[i].jobs) + Len(deliveries[j].jobs) <= 1
           /\ ( Finished(deliveries[j]) =>
                   /\ deliveries[i].calls + deliveries[j].calls = 1
                   /\ Len(deliveries[i].jobs) + Len(deliveries[j].jobs) = 1 )

\* C1 (amended): once a delivery of E has ended in success, a later delivery of
\* E is skipped as a duplicate: it invokes no handler and creates no
\* RenderJob; when no invocation of the first delivery raised, the two
\* deliveries invoke the handler exactly once and create exactly one RenderJob.
C1_DuplicateSkipped ==
    \A i, j \in DeliveryIds :
        ( /\ i < j
          /\ deliveries[i].event_id = deliveries[j].event_id
          /\ deliveries[i].outcome = "success" )
        => /\ deliveries[j].outcome = "duplicate"
           /\ deliveries[j].calls = 0
           /\ deliveries[j].jobs = <<>>
           /\ deliveries[j].attempts = 1
           /\ ( IsHandled(deliveries[i].event_type) /\ deliveries[i].raised = 0
                => /\ deliveries[i].calls + deliveries[j].calls = 1
                   /\ Len(deliveries[i].jobs) + Len(deliveries[j].jobs) = 1 )

C1_Witness ==
    \E i, j \in DeliveryIds :
        /\ i < j
        /\ deliveries[i].event_id = deliveries[j].event_id
        /\ IsHandled(deliveries[i].event_type)
        /\ deliveries[i].outcome = "success"
        /\ deliveries[i].calls = 1
        /\ deliveries[j].outcome = "duplicate"

\* C2: one delivery of a script.generated message creates at most one
\* RenderJob over all its retry attempts.
C2_AtMostOneJob ==
    \A i \in DeliveryIds : Len(deliveries[i].jobs) <= 1

\* C3: a message whose handler raises on every attempt has its handler
\* invoked exactly MAX_RETRIES times; it is forwarded to the dead-letter topic
\* once, only after the last failed attempt, with retry_count = MAX_RETRIES,
\* and no attempt follows.
C3_BoundedRetry ==
    \A i \in DeliveryIds :
        LET d == deliveries[i] IN
        /\ d.attempts <= MAX_RETRIES
        /\ d.calls <= MAX_RETRIES
        /\ Len(d.dlq) <= 1
        /\ ( d.dlq # <<>> =>
               /\ d.attempts = MAX_RETRIES
               /\ d.dlq[1].retry_count = MAX_RETRIES
               /\ (d.calls > 0 => d.calls = MAX_RETRIES /\ d.raised = MAX_RETRIES) )
        /\ ( Finished(d) /\ d.calls > 0 /\ d.raised = d.calls =>
               /\ d.calls = MAX_RETRIES
               /\ d.outcome = "dlq"
               /\ Len(d.dlq) = 1 )
        /\ ( d.outcome = "dlq" => Len(d.dlq) = 1 )

C3_Witness ==
    \E i \in DeliveryIds :
        /\ deliveries[i].outcome = "dlq"
        /\ deliveries[i].calls = MAX_RETRIES
        /\ deliveries[i].raised = MAX_RETRIES
        /\ Len(dlq) >= 1

\* the rows of render_scenes that belong to job j, as indices, in insertion order
SceneRows(j) == { k \in 1..Len(scenes) : scenes[k].render_job_id = j }

\* C4: when the provider call raises for scene k of a job, the job becomes
\* failed with error_message set, no later scene is attempted and the scenes
\* before k stay completed.
C4_FailFast ==
    \A i \in 1..Len(failures) :
        LET f == failures[i] IN
        /\ jobs[f.job].status = "failed"
        /\ jobs[f.job].error_message # None
        /\ \A k \in SceneRows(f.job) :
              /\ k <= f.scene
              /\ (k < f.scene => scenes[k].status = "completed")

\* C5: completed_scenes never exceeds total_scenes, for every job and every
\* inbound payload.
C5_Progress ==
    \A j \in 1..Len(jobs) : jobs[j].completed_scenes <= jobs[j].total_scenes


\* the edges of the RenderJob status state machine
StatusEdges ==
    { <<"pending", "processing">>, <<"processing", "completed">>,
      <<"processing", "failed">>, <<"failed", "pending">> }

\* the jobs created by create_render_from_script_event (job 1 is the seeded row)
CreatedJobs == 2..Len(jobs)

\* C6: over any sequence of create_from_script_event, attach_voiceover,
\* publish_video and retry_render, a created job's status starts at pending and
\* every status change of a job follows one of the edges pending->processing,
\* processing->completed, processing->failed, failed->pending.
C6_StatusMachine ==
    /\ Len(statusLog) = Len(jobs)
    /\ \A j \in 1..Len(jobs) :
          /\ Last(statusLog[j]) = jobs[j].status
          /\ \A k \in 1..(Len(statusLog[j]) - 1) :
                <<statusLog[j][k], statusLog[j][k + 1]>> \in StatusEdges
    /\ \A j \in CreatedJobs : statusLog[j][1] = "pending"

C6_Witness ==
    /\ statusLog[1] = <<"failed", "pending">>
    /\ \E j \in CreatedJobs : statusLog[j] = <<"pending", "processing", "completed">>

\* C7: for a job created with total_scenes = N, once the scene loop has
\* finished the job is completed with completed_scenes = N and has exactly N
\* scene rows, numbered 1..N, all completed.
C7_Sequencing ==
    \A j \in CreatedJobs :
        jobs[j].status = "completed" =>
            /\ jobs[j].completed_scenes = jobs[j].total_scenes
            /\ Cardinality(SceneRows(j)) = jobs[j].total_scenes
            /\ { scenes[k].scene_number : k \in SceneRows(j) } = 1..jobs[j].total_scenes
            /\ \A k \in SceneRows(j) : scenes[k].status = "completed"

\* the k-th scene row of job j, in insertion order
RECURSIVE RowsInOrder(_, _)
RowsInOrder(j, n) ==
    IF n = 0 THEN <<>>
    ELSE IF scenes[n].render_job_id = j THEN Append(RowsInOrder(j, n - 1), n)
    ELSE RowsInOrder(j, n - 1)

SceneEventsOf(j) == SelectSeq(events[j], LAMBDA e : e.type = "render.scene.generated")

LoopEventsOf(j) == SelectSeq(events[j], LAMBDA e : e.type # "video.published")

\* C8: the scene loop of a job publishes one render.scene.generated per scene,
\* in processing order, each only after its scene is completed and counted,
\* and, for a job with N scenes, exactly one render.completed after the N scene
\* events and only once the job is completed: N + 1 publish calls.
C8_Emission ==
    \A j \in CreatedJobs :
        LET rows == RowsInOrder(j, Len(scenes))
            sev == SceneEventsOf(j)
            lev == LoopEventsOf(j)
        IN  /\ Len(sev) <= jobs[j].completed_scenes
            /\ Len(sev) <= Len(rows)
            /\ \A k \in 1..Len(sev) :
                  /\ sev[k] = SceneEvent(j, rows[k], scenes[rows[k]].scene_number)
                  /\ scenes[rows[k]].status = "completed"
                  /\ lev[k] = sev[k]
            /\ Len(lev) <= Len(sev) + 1
            /\ ( Len(lev) = Len(sev) + 1 =>
                    /\ lev[Len(lev)] = CompletedEvent(j)
                    /\ jobs[j].status = "completed"
                    /\ Len(sev) = Len(rows) )
            /\ ( jobs[j].status = "completed" =>
                    /\ Len(sev) = Len(rows)
                    /\ Len(lev) = Len(rows) + 1 )

C8_Witness ==
    \E j \in CreatedJobs :
        /\ jobs[j].status = "completed"
        /\ Cardinality(SceneRows(j)) = PlaceholderScenes
        /\ Len(events[j]) = PlaceholderScenes + 1
        /\ events[j][Len(events[j])] = CompletedEvent(j)

\* the step is the HTTP request op
Served(op) == lastOp'.op = op /\ nOps' = nOps + 1

OthersUnchanged(id) ==
    /\ Len(jobs') = Len(jobs)
    /\ \A j \in 1..Len(jobs) : j # id => jobs'[j] = jobs[j]
    /\ scenes' = scenes

\* C9: publish_video on a job that is not completed fails with WorkflowError,
\* changes nothing and publishes nothing; on a completed job it succeeds, sets
\* published_url and published_at and publishes one video.published event.
C9_PublishPrecondition ==
    [][ Served("publish_video") /\ lastOp'.id \in 1..Len(jobs) =>
          LET id == lastOp'.id IN
          IF jobs[id].status # "completed"
          THEN /\ lastOp'.result = "WorkflowError"
               /\ jobs' = jobs /\ scenes' = scenes /\ events' = events
          ELSE /\ lastOp'.result = "ok"
               /\ jobs'[id].published_url # None
               /\ jobs'[id].published_at # None
               /\ jobs'[id] = [jobs[id] EXCEPT !.published_url = jobs'[id].published_url,
                                               !.published_at = jobs'[id].published_at]
               /\ events' = [events EXCEPT ![id] = Append(@, PublishedEvent(id))]
               /\ OthersUnchanged(id) ]_vars

C9_Witness ==
    /\ lastOp.op = "publish_video"
    /\ lastOp.result = "WorkflowError"
    /\ lastOp.id \in 1..Len(jobs)
    /\ \E j \in CreatedJobs : jobs[j].published_url # None /\ jobs[j].published_at # None

\* C10: retry_render on a job that is not failed fails with WorkflowError and
\* changes nothing; on a failed job it sets status = pending,
\* completed_scenes = 0 and error_message = null and changes no other field.
C10_RetryRender ==
    [][ Served("retry_render") /\ lastOp'.id \in 1..Len(jobs) =>
          LET id == lastOp'.id IN
          IF jobs[id].status # "failed"
          THEN /\ lastOp'.result = "WorkflowError"
               /\ jobs' = jobs /\ scenes' = scenes /\ events' = events
          ELSE /\ lastOp'.result = "ok"
               /\ jobs'[id] = [jobs[id] EXCEPT !.status = "pending",
                                               !.completed_scenes = 0,
                                               !.error_message = None]
               /\ events' = events
               /\ OthersUnchanged(id) ]_vars

C10_Witness ==
    /\ lastOp = [op |-> "retry_render", id |-> 1, result |-> "WorkflowError"]
    /\ jobs[1] = [SeedFailedJob EXCEPT !.status = "pending",
                                      !.completed_scenes = 0,
                                      !.error_message = None]

PublishCalls == {c \in 1..Len(pubs) : pubs[c].kind = "publish"}

\* C11: publish_event never raises to its caller because of the broker. With
\* no producer and a failed lazy start it sends nothing; with a producer whose
\* send fails it has made exactly one send attempt; in every case it makes at
\* most one send attempt and returns the envelope it built, as it does when
\* the broker accepts the event.
C11_DegradedPublish ==
    \A c \in PublishCalls :
       /\ pubs[c].pc # "raised"
       /\ pubs[c].sends <= 1
       /\ pubs[c].pc = "returned" =>
             /\ pubs[c].result \in {"sent", "dropped", "send_failed"}
             /\ pubs[c].returned = pubs[c].event
             /\ pubs[c].returned = Envelope(c, pubs[c].event.event_type)
             /\ pubs[c].result = "dropped" => pubs[c].sends = 0
             /\ pubs[c].result = "send_failed" => pubs[c].sends = 1
             /\ pubs[c].result # "sent" =>
                   \A t \in 1..Len(topic) : topic[t] # pubs[c].event

\* one call returned its envelope after a failed lazy start, another after a
\* failed send
C11_Witness ==
    \E c, d \in PublishCalls :
       /\ pubs[c].pc = "returned" /\ pubs[c].result = "dropped"
       /\ pubs[c].returned = pubs[c].event
       /\ pubs[d].pc = "returned" /\ pubs[d].result = "send_failed"
       /\ pubs[d].returned = pubs[d].event


\* C12: the consumer loop survives poison messages. A message that exhausted
\* its retries ends in exactly one dead-letter publish whose failure (no
\* producer, or a failed send) never reaches the loop: the loop is never
\* terminated by a message, every message pulled before the current one has
\* finished, and after a dead-lettered message the consumer is back waiting
\* for the next message or already processing it.
C12_LoopSurvives ==
    /\ pc # "crashed"
    /\ \A i \in DeliveryIds :
         LET d == deliveries[i] IN
         /\ i < Len(deliveries) => Finished(d)
         /\ d.outcome = "dlq" =>
               /\ d.dlqResult \in DlqResults
               /\ Len(d.dlq) = 1
               /\ i = Len(deliveries) => pc = "idle"
         /\ d.outcome # "dlq" => d.dlqResult = "none"

\* a message was processed to success after a poison message whose
\* dead-letter publish failed
C12_Witness ==
    \E i \in DeliveryIds :
       /\ i < Len(deliveries)
       /\ deliveries[i].outcome = "dlq"
       /\ deliveries[i].dlqResult \in {"no_producer", "send_failed"}
       /\ deliveries[i + 1].outcome = "success"


\* C13: cooperative shutdown. Once the consumer has stopped, every message it
\* pulled has been processed to its end (success, duplicate skip, or the
\* dead-letter publish after the last retry): a message in the handler or in
\* a backoff sleep when the stop signal arrives is allowed to finish first.
C13_CooperativeShutdown ==
    pc = "stopped" =>
       \A i \in DeliveryIds : deliveries[i].outcome \in {"success", "duplicate", "dlq"}


Held(s) == {k \in LruKeys : KeyIn(s, k)}

\* C14: eviction is least-recently-used. An id leaves the cache only when a
\* new id is added to a full cache, and the id that leaves is the one whose
\* last use (insertion, re-add or membership hit) is the oldest; every other
\* id stays. With no id touched since its insertion that is the id inserted
\* first, so after capacity + 1 distinct inserts the first is gone and the
\* other capacity ids are still reported.
C14_LruEviction ==
    [][ LET evicted == Held(lru) \ Held(lru')
            fullMiss == /\ lruLast'.op = "add"
                        /\ ~lruLast'.hit
                        /\ Cardinality(Held(lru)) = LruMaxsize
        IN  /\ evicted # {} => fullMiss
            /\ fullMiss =>
                  /\ Cardinality(evicted) = 1
                  /\ Held(lru') = (Held(lru) \ evicted) \cup {lruLast'.key}
                  /\ \A x \in evicted : \A y \in Held(lru) \ {x} :
                        /\ lruUse[x].use < lruUse[y].use
                        /\ ( (\A z \in Held(lru) : lruUse[z].use = lruUse[z].ins)
                               => lruUse[x].ins < lruUse[y].ins )
      ]_vars

\* capacity + 1 distinct ids were inserted and the id evicted is not the one
\* inserted first: the first had been looked up since
C14_Witness ==
    /\ lruLast.op = "add" /\ ~lruLast.hit
    /\ \E x \in Held(lru) : \E y \in LruKeys \ Held(lru) :
          /\ 0 < lruUse[x].ins
          /\ lruUse[x].ins < lruUse[y].ins
          /\ lruUse[x].use > lruUse[x].ins
    /\ \A k \in LruKeys : lruUse[k].ins > 0

\* C15: the cache is bounded. It never holds more ids than its capacity, it
\* holds no id twice, and adding an id it already holds (or checking
\* membership) leaves the number and the set of ids held unchanged.
C15_Bounded ==
    [][ /\ Len(lru') <= LruMaxsize
        /\ Cardinality(Held(lru')) = Len(lru')
        /\ (lruLast'.op = "add" /\ lruLast'.hit) =>
              Len(lru') = Len(lru) /\ Held(lru') = Held(lru)
        /\ lruLast'.op = "contains" =>
              Len(lru') = Len(lru) /\ Held(lru') = Held(lru)
        /\ (lruLast'.op = "add" /\ ~lruLast'.hit) =>
              Len(lru') = IF Len(lru) < LruMaxsize THEN Len(lru) + 1 ELSE LruMaxsize
      ]_vars

\* an id already held was added again to a full cache that had evicted before
C15_Witness ==
    /\ lruLast.op = "add" /\ lruLast.hit
    /\ Len(lru) = LruMaxsize
    /\ \E k \in LruKeys \ Held(lru) : lruUse[k].ins > 0


TargetOf(op) ==
    CASE op = "validate_poi" -> "validated"
      [] op = "publish_poi" -> "published"
      [] op = "archive_poi" -> "archived"

ForwardEdges ==
    {<<"draft", "validated">>, <<"validated", "published">>, <<"published", "archived">>}

\* C16: a validate_poi, publish_poi or archive_poi call on a POI succeeds
\* exactly when draft->validated, validated->published or published->archived
\* is the edge from the POI's status to the call's target; it then sets the
\* status to the target and publishes the matching event. Every other call
\* fails with WorkflowError, leaves the rows (status and version) as they
\* were and publishes nothing. No call succeeds on an archived POI.
C16_TransitionLegality ==
    [][ (poiLast'.op \in {"validate_poi", "publish_poi", "archive_poi"}
           /\ poiLast'.id <= Len(pois)) =>
        LET id == poiLast'.id
            tgt == TargetOf(poiLast'.op)
            legal == <<pois[id].status, tgt>> \in ForwardEdges
        IN  /\ poiLast'.result = "ok" <=> legal
            /\ pois[id].status = "archived" => poiLast'.result # "ok"
            /\ poiLast'.result = "ok" =>
                  /\ pois' = [pois EXCEPT ![id].status = tgt]
                  /\ Len(poiEvents') = Len(poiEvents) + 1
                  /\ Last(poiEvents').id = id
                  /\ Last(poiEvents').status = tgt
            /\ poiLast'.result # "ok" =>
                  /\ poiLast'.result = "WorkflowError"
                  /\ pois' = pois
                  /\ poiEvents' = poiEvents
      ]_vars

\* a POI went through its whole lifecycle and a call on it, archived, failed
C16_Witness ==
    /\ poiLast.op = "publish_poi"
    /\ poiLast.result = "WorkflowError"
    /\ poiLast.id <= Len(pois)
    /\ pois[poiLast.id].status = "archived"

Stage(status) ==
    CASE status = "draft" -> 1
      [] status = "validated" -> 2
      [] status = "published" -> 3
      [] status = "archived" -> 4

\* C17: the POI lifecycle is draft -> validated -> published -> archived,
\* one-way and without skipping: whenever the transition check lets a
\* (current, target) pair through, target is the stage right after current.
C17_OneWay ==
    (poiLast.result = "ok" /\ poiLast.op \in {"_check_transition", "validate_poi",
                                                "publish_poi", "archive_poi"})
       => Stage(poiLast.target) = Stage(poiLast.from) + 1


\* the message a delivery record stands for
RawOf(d) == CHOOSE m \in Messages : m.event_id = d.event_id

IsLast(i) == i = Len(deliveries)

\* C18: a message whose bytes do not deserialize is retried, not instantly
\* dead-lettered. Deserialization is attempted once per attempt, up to
\* MAX_RETRIES attempts with a backoff sleep after each but the last; the
\* handler is never invoked and no job is created; the raw message reaches
\* publish_to_dlq only after attempt MAX_RETRIES, and that is how it ends.
C18_MalformedRetried ==
    \A i \in DeliveryIds :
       LET d == deliveries[i] IN
       ~CanDeserialize(RawOf(d)) =>
          /\ d.calls = 0 /\ d.jobs = <<>>
          /\ d.parses = d.attempts
          /\ d.attempts <= MAX_RETRIES
          /\ d.outcome \in {"running", "dlq"}
          /\ (IsLast(i) /\ pc = "sleep") =>
                Len(d.sleeps) = d.attempts /\ d.attempts < MAX_RETRIES
          /\ ~(IsLast(i) /\ pc = "sleep") => Len(d.sleeps) = d.attempts - 1
          /\ d.dlq = <<>> => d.outcome = "running"
          /\ d.dlq # <<>> =>
                /\ d.parses = MAX_RETRIES
                /\ Len(d.sleeps) = MAX_RETRIES - 1
                /\ d.dlq = <<DlqCall(RawOf(d))>>
                /\ d.dlq[1].raw_value = RawOf(d)
          /\ \A k \in 1..Len(cache) : cache[k] # d.event_id

\* a malformed message went through MAX_RETRIES parse attempts into the DLQ
C18_Witness ==
    \E i \in DeliveryIds :
       /\ ~CanDeserialize(RawOf(deliveries[i]))
       /\ deliveries[i].outcome = "dlq"
       /\ deliveries[i].parses = MAX_RETRIES
       /\ Len(deliveries[i].sleeps) = MAX_RETRIES - 1

\* C19: a well-formed envelope of a type other than script.generated is
\* handled by doing nothing. No handler is invoked, no RenderJob is created,
\* nothing is retried, slept or dead-lettered; the message is over within its
\* first attempt, its first delivery as a success with the event_id recorded
\* in the cache (a redelivery is then skipped as a duplicate).
C19_UnknownTypeHandled ==
    \A i \in DeliveryIds :
       LET d == deliveries[i] IN
       (CanDeserialize(RawOf(d)) /\ d.event_type # "script.generated") =>
          /\ d.calls = 0 /\ d.raised = 0 /\ d.jobs = <<>>
          /\ d.attempts = 1 /\ d.parses = 1
          /\ d.sleeps = <<>> /\ d.dlq = <<>> /\ d.dlqResult = "none"
          /\ d.outcome \in {"success", "duplicate"}
          /\ d.outcome = "success" <=>
                (\A h \in 1..(i - 1) : deliveries[h].event_id # d.event_id)
          /\ LRUContains(cache, d.event_id)
          /\ IsLast(i) => pc = "idle"

\* an event of an unknown type was consumed as a success
C19_Witness ==
    \E i \in DeliveryIds :
       /\ deliveries[i].event_type = "voiceover.completed"
       /\ deliveries[i].outcome = "success"
       /\ LRUContains(cache, deliveries[i].event_id)
       /\ Len(jobs) = 1

\* C20: backoff growth. The k-th sleep of a message, taken after failed
\* attempt k, lasts BACKOFF_BASE_SECONDS * 2^(k-1) seconds (1 s, then 2 s);
\* the delays strictly increase; there are at most MAX_RETRIES - 1 of them,
\* one after each failed attempt but the last: nothing is slept between the
\* last failure and the dead-letter publish.
C20_BackoffGrowth ==
    \A i \in DeliveryIds :
       LET d == deliveries[i] IN
       /\ Len(d.sleeps) <= MAX_RETRIES - 1
       /\ \A k \in 1..Len(d.sleeps) : d.sleeps[k] = BACKOFF_BASE_SECONDS * 2^(k - 1)
       /\ \A k \in 1..(Len(d.sleeps) - 1) : d.sleeps[k] < d.sleeps[k + 1]
       /\ (IsLast(i) /\ pc = "sleep") => Len(d.sleeps) = d.attempts
       /\ ~(IsLast(i) /\ pc = "sleep") => Len(d.sleeps) = d.attempts - 1
       /\ d.dlq # <<>> => d.attempts = MAX_RETRIES /\ Len(d.sleeps) = MAX_RETRIES - 1
       /\ d.outcome \in {"success", "duplicate"} => Len(d.sleeps) = d.attempts - 1

\* a message slept 1 s and then 2 s and went to the DLQ after its third failure
C20_Witness ==
    \E i \in DeliveryIds :
       /\ deliveries[i].sleeps = <<1, 2>>
       /\ deliveries[i].attempts = MAX_RETRIES
       /\ deliveries[i].dlq # <<>>


\* C21: on retry exhaustion publish_to_dlq is called once, with the raw
\* message as received, the error of the failure that exhausted the retries
\* and the retry count; the record sent is a dlq.message_failed envelope on
\* dlq.events whose payload carries original_topic, raw_value, error and
\* retry_count.
C21_DlqContent ==
    \A i \in DeliveryIds :
       LET d == deliveries[i] IN
       d.dlq # <<>> =>
          /\ Len(d.dlq) = 1
          /\ d.dlq[1].raw_value = RawOf(d)
          /\ d.dlq[1].retry_count = MAX_RETRIES
          /\ d.dlq[1].original_topic = KAFKA_TOPIC
          /\ d.dlq[1].error = d.lastError
          /\ DlqEnvelope(d.dlq[1]).topic = "dlq.events"
          /\ DlqEnvelope(d.dlq[1]).event_type = "dlq.message_failed"
          /\ DOMAIN DlqEnvelope(d.dlq[1]).payload =
                {"original_topic", "raw_value", "error", "retry_count"}


\* C22: attach_voiceover on a known job succeeds whatever the job's status
\* and changes only voiceover_id and voiceover_audio_path: status, counters,
\* output_path, published_url, published_at and error_message, the other
\* jobs, the scene rows and the event log stay as they were. On an unknown
\* id it fails with NotFoundError and changes nothing.
C22_AttachFrame ==
    [][ Served("attach_voiceover") =>
          LET id == lastOp'.id IN
          IF id \in 1..Len(jobs)
          THEN /\ lastOp'.result = "ok"
               /\ jobs'[id].voiceover_id # None
               /\ jobs'[id].voiceover_audio_path # None
               /\ jobs'[id] = [jobs[id] EXCEPT
                                  !.voiceover_id = jobs'[id].voiceover_id,
                                  !.voiceover_audio_path = jobs'[id].voiceover_audio_path]
               /\ jobs'[id].status = jobs[id].status
               /\ jobs'[id].total_scenes = jobs[id].total_scenes
               /\ jobs'[id].completed_scenes = jobs[id].completed_scenes
               /\ jobs'[id].output_path = jobs[id].output_path
               /\ jobs'[id].published_url = jobs[id].published_url
               /\ jobs'[id].published_at = jobs[id].published_at
               /\ jobs'[id].error_message = jobs[id].error_message
               /\ OthersUnchanged(id)
               /\ events' = events /\ statusLog' = statusLog
          ELSE /\ lastOp'.result = "NotFoundError"
               /\ jobs' = jobs /\ scenes' = scenes
               /\ events' = events /\ statusLog' = statusLog ]_vars

\* a voiceover was attached to a job while its scene loop was running
C22_Witness ==
    /\ lastOp.op = "attach_voiceover" /\ lastOp.result = "ok"
    /\ lastOp.id \in CreatedJobs
    /\ jobs[lastOp.id].status = "processing"
    /\ jobs[lastOp.id].voiceover_id # None
    /\ pc \in {"provider", "pub_scene"}


\* the scene rows of job j, as they are
RowsOf(sc, j) == { <<k, sc[k]>> : k \in { n \in 1..Len(sc) : sc[n].render_job_id = j } }

\* C23: retry_render does not re-drive the scene loop. A successful
\* retry_render leaves the job pending, starts nothing in the consumer,
\* touches no scene row and publishes nothing; and whatever happens next
\* (other messages rendered, other requests served) a pending job stays
\* pending with completed_scenes 0, its scene rows and its event log as they
\* were.
C23_NoRedrive ==
    [][ /\ (Served("retry_render") /\ lastOp'.result = "ok") =>
              /\ jobs'[lastOp'.id].status = "pending"
              /\ scenes' = scenes /\ events' = events
              /\ pc' = pc /\ todo' = todo /\ curJob' = curJob
              /\ OthersUnchanged(lastOp'.id)
        /\ \A j \in 1..Len(jobs) :
              jobs[j].status = "pending" =>
                 /\ jobs'[j].status = "pending"
                 /\ jobs'[j].completed_scenes = jobs[j].completed_scenes
                 /\ jobs'[j].output_path = jobs[j].output_path
                 /\ RowsOf(scenes', j) = RowsOf(scenes, j)
                 /\ events'[j] = events[j]
                 /\ curJob' # j ]_vars

\* the retried job is still pending, untouched, after the consumer has
\* rendered another message to completion
C23_Witness ==
    /\ jobs[1].status = "pending" /\ jobs[1].completed_scenes = 0
    /\ RowsOf(scenes, 1) = RowsOf(SeedScenes, 1)
    /\ events[1] = <<>>
    /\ pc = "idle"
    /\ \E j \in CreatedJobs : jobs[j].status = "completed"
    /\ Len(statusLog[1]) = 2


PublishedCount(j) ==
    Cardinality({ k \in 1..Len(events[j]) : events[j][k].type = "video.published" })

\* C24: re-publish is allowed and URL-idempotent. publish_video on a
\* completed job that is already published succeeds again; every successful
\* invocation appends one more video.published event for the job; and
\* published_url is the same after each invocation, the value derived from
\* the job id.
C24_Republish ==
    [][ (Served("publish_video") /\ lastOp'.id \in 1..Len(jobs)) =>
          LET id == lastOp'.id IN
          /\ (jobs[id].status = "completed" /\ jobs[id].published_url # None) =>
                /\ lastOp'.result = "ok"
                /\ jobs'[id].published_url = jobs[id].published_url
          /\ lastOp'.result = "ok" =>
                /\ jobs'[id].published_url = PublishedUrl(id)
                /\ Len(events'[id]) = Len(events[id]) + 1
                /\ Last(events'[id]) = PublishedEvent(id)
                /\ \A k \in 1..Len(events[id]) : events'[id][k] = events[id][k]
          /\ lastOp'.result # "ok" => events' = events ]_vars

\* a job was published twice: two video.published events, one URL
C24_Witness ==
    \E j \in CreatedJobs :
       /\ PublishedCount(j) = 2
       /\ jobs[j].published_url = PublishedUrl(j)
       /\ lastOp = [op |-> "publish_video", id |-> j, result |-> "ok"]


\* the update_poi calls made on POI id while it was published
PublishedUpdates(id) ==
    { k \in 1..Len(poiEvents) : /\ poiEvents[k].id = id
                                /\ poiEvents[k].event_type = "poi.updated"
                                /\ poiEvents[k].status = "published" }

\* C25: a POI is created with version 1, each update_poi made while it is
\* published adds exactly 1, and nothing else changes the version: at any
\* time version = 1 + the number of updates performed while published, and
\* every event carries the version the POI had when it was published.
C25_VersionBumping ==
    /\ \A id \in 1..Len(pois) :
          pois[id].version = 1 + Cardinality(PublishedUpdates(id))
    /\ \A k \in 1..Len(poiEvents) :
          LET e == poiEvents[k]
              before == { h \in 1..k : /\ poiEvents[h].id = e.id
                                       /\ poiEvents[h].event_type = "poi.updated"
                                       /\ poiEvents[h].status = "published" }
          IN  /\ e.version = 1 + Cardinality(before)
              /\ e.event_type = "poi.created" => e.version = 1

\* a published POI was updated twice and is at version 3; it had been
\* updated as a draft before without a bump
C25_Witness ==
    \E id \in 1..Len(pois) :
       /\ pois[id].version = 3
       /\ Cardinality(PublishedUpdates(id)) = 2


\* C26: with several publish_event calls running concurrently while no
\* producer is established, no call is inside send_and_wait on a producer
\* whose start() has not completed, and no call's send fails on a producer
\* that never got started (an event lost to another call's pending start).
C26_NoSendBeforeStart ==
    \A c \in 1..Len(pubs) :
       /\ pubs[c].pc = "send" => producerObjs[pubs[c].handle] = "started"
       /\ pubs[c].result = "send_failed" => producerObjs[pubs[c].handle] = "started"

\* the scene loop of job curJob is suspended at one of its awaits
LoopYielded == pc \in {"provider", "pub_scene"}

\* C27: publish_video and retry_render cannot act on a job that is being
\* rendered. Wherever the scene loop is suspended (provider call, scene event
\* publish) the committed status of its job is processing, so a
\* publish_video or retry_render interleaved there ends in WorkflowError and
\* changes nothing; publish_video succeeds only on a job whose scene rows
\* are all completed and whose output_path is set.
C27_NoActOnRendering ==
    /\ LoopYielded => jobs[curJob].status = "processing"
    /\ \A op \in {"publish_video", "retry_render"} :
          (LoopYielded /\ lastOp.op = op /\ lastOp.id = curJob) =>
              /\ lastOp.result = "WorkflowError"
              /\ jobs[curJob].published_url = None
              /\ jobs[curJob].completed_scenes = Cardinality({ r \in RowsOf(scenes, curJob) :
                                                                  r[2].status = "completed" })
    /\ (lastOp.op = "publish_video" /\ lastOp.result = "ok") =>
          /\ jobs[lastOp.id].status = "completed"
          /\ jobs[lastOp.id].output_path # None
          /\ RowsOf(scenes, lastOp.id) # {}
          /\ \A r \in RowsOf(scenes, lastOp.id) : r[2].status = "completed"
          /\ ~(LoopYielded /\ curJob = lastOp.id)

\* publish_video was refused on the job whose second scene is at the provider
C27_Witness ==
    /\ pc = "provider"
    /\ jobs[curJob].completed_scenes = 1
    /\ lastOp = [op |-> "publish_video", id |-> curJob, result |-> "WorkflowError"]

CachedIds == { cache[k] : k \in 1..Len(cache) }

SucceededIds == { deliveries[i].event_id : i \in { n \in DeliveryIds : deliveries[n].outcome = "success" } }

\* C28: an event_id is recorded in the idempotency cache only after its
\* processing succeeded. The cache holds exactly the ids of the deliveries
\* whose handler returned without raising (or whose type has no handler);
\* the id of a message in flight, in backoff or dead-lettered is not in it,
\* so a redelivery of a dead-lettered message (not handled with success in
\* between) is dispatched to the handler again instead of being skipped as a
\* duplicate.
C28_CachedOnlyAfterSuccess ==
    /\ CachedIds = SucceededIds
    /\ \A i \in DeliveryIds :
          LET d == deliveries[i] IN
          /\ d.outcome = "success" =>
                IF IsHandled(d.event_type) THEN d.calls = d.raised + 1 ELSE d.calls = 0
          /\ (d.outcome \in {"running", "dlq"} /\ IsLast(i)) => d.event_id \notin CachedIds
    /\ \A i, j \in DeliveryIds :
          ( /\ i < j
            /\ deliveries[i].event_id = deliveries[j].event_id
            /\ deliveries[i].outcome = "dlq"
            /\ \A k \in DeliveryIds :
                  (k < j /\ deliveries[k].event_id = deliveries[j].event_id)
                     => deliveries[k].outcome # "success" )
          => /\ deliveries[j].outcome # "duplicate"
             /\ (CanDeserialize(RawOf(deliveries[j])) /\ IsHandled(deliveries[j].event_type))
                   => deliveries[j].calls >= 1

\* a dead-lettered script.generated message was redelivered and its handler
\* invoked again
C28_Witness ==
    \E i, j \in DeliveryIds :
       /\ i < j
       /\ deliveries[i].event_id = deliveries[j].event_id
       /\ deliveries[i].outcome = "dlq"
       /\ deliveries[i].calls = MAX_RETRIES
       /\ deliveries[j].calls >= 1
       /\ deliveries[i].event_id \notin CachedIds

\* the attempts of a delivery that ended in the except branch
FailedAttempts(d) == IF CanDeserialize(RawOf(d)) THEN d.raised ELSE d.parses

\* what is settled about the deliveries in every state
C29_Outcomes ==
    /\ pc = "idle" => \A i \in DeliveryIds : Finished(deliveries[i])
    /\ Len(dlq) = Cardinality({ i \in DeliveryIds : deliveries[i].dlq # <<>> })
    /\ \A i \in DeliveryIds :
          LET d == deliveries[i] IN
          /\ d.attempts \in 1..MAX_RETRIES
          /\ d.parses <= MAX_RETRIES /\ d.calls <= MAX_RETRIES
          /\ d.outcome \in {"running", "duplicate", "success", "dlq"}
          /\ ~IsLast(i) => Finished(d)
          /\ Len(d.dlq) <= 1
          /\ d.outcome = "dlq" => Len(d.dlq) = 1
          /\ d.outcome \in {"success", "duplicate"} => d.dlq = <<>>
          /\ d.outcome = "duplicate" => d.calls = 0
          /\ d.dlq # <<>> =>
                /\ d.attempts = MAX_RETRIES
                /\ FailedAttempts(d) = MAX_RETRIES
                /\ d.outcome \in {"running", "dlq"}

\* C29: the processing of every message terminates, after at most
\* MAX_RETRIES attempts, in exactly one of duplicate-skipped, handled or
\* forwarded to the dead-letter topic: never both handled and dead-lettered,
\* never dead-lettered twice, never dead-lettered after fewer than
\* MAX_RETRIES failed attempts; and a message being processed always gets
\* to its end.
C29_Termination ==
    /\ []C29_Outcomes
    /\ (pc # "idle") ~> (pc = "idle")

\* two messages have ended, one handled after a failed attempt and one
\* dead-lettered after MAX_RETRIES failed attempts
C29_Witness ==
    /\ pc = "idle"
    /\ \E i, j \in DeliveryIds :
          /\ deliveries[i].outcome = "dlq"
          /\ FailedAttempts(deliveries[i]) = MAX_RETRIES
          /\ deliveries[j].outcome = "success"
          /\ deliveries[j].raised >= 1

TypeOK ==
    /\ pc \in {"idle", "provider", "pub_scene", "pub_done", "sleep", "dlq", "crashed", "stopped"}
    /\ Len(jobs) = Len(statusLog)

====
